---- MODULE Spec2Model ----
(***************************************************************************)
(* Model of the SIREN backend server lifecycle                             *)
(* (backend/src/websocket/server_lifecycle_manager.cpp).                   *)
(*                                                                         *)
(* ServerLifecycleManager coordinates three components (connection         *)
(* acceptor, message broadcaster, statistics collector) and the session    *)
(* registry.  Each of initialize(), start() and stop() is modelled         *)
(* statement by statement: a call is begun by a thread, walks through the  *)
(* component calls in the order of the source, and ends in "done" with     *)
(* its result.  Every component call and every write of a shared flag is   *)
(* appended to the log of the call, so that the order of effects and the   *)
(* frame of a call are state predicates.                                   *)
(*                                                                         *)
(* The components themselves (ConnectionAcceptor, MessageBroadcaster,      *)
(* StatisticsCollector, SessionManager, ServerEventHandler) are not part   *)
(* of the translated sources; their calls are modelled by their possible   *)
(* outcomes (return true, return false, throw).  Logging calls             *)
(* (std::cout, utils::ErrorHandler) are taken not to throw.                *)
(*                                                                         *)
(* Specifications:                                                         *)
(*   Spec            lifecycle calls made one after the other              *)
(*   SpecConcurrent  start() and stop() called by two threads at once      *)
(*   SpecMain        main() of backend/src/main.cpp driving the controller *)
(*   SpecBroadcast   broadcasts of the run loop on a running server        *)
(*   SpecFrontend    signal handlers of the display client's MainWindow    *)
(*                   (frontend/src/ui/MainWindow.cpp)                      *)
(***************************************************************************)
EXTENDS Naturals, Sequences, FiniteSets

\* ------------------------------------------------------------------ bounds

\* Number of lifecycle calls (initialize/start/stop) begun in one behaviour.
MaxCalls == 4

\* Number of distinct remote endpoints that may connect.
MaxSessions == 2

\* Number of signals the display client's WebSocket client emits.
MaxSignals == 3

\* --------------------------------------------------------------- constants

Threads == {"t1", "t2"}

Components == {"connection_acceptor", "message_broadcaster", "statistics_collector"}

Endpoints == 1..MaxSessions

AllCallbacks == {"AcceptCallback", "ErrorCallback", "SessionCallback", "BroadcastCallback"}

Ops == {"initialize", "start", "stop"}

VARIABLES
    running,              \* std::atomic<bool>& running
    shutdown_requested,   \* std::atomic<bool>& shutdown_requested
    inited,               \* component -> its initialize() has returned true
    started,              \* component -> started and not stopped since
    callbacks,            \* callbacks installed by initialize()
    sessions,             \* session registry: endpoints with a live session
    startCount,           \* component -> number of start() invocations
    stopCount,            \* component -> number of stop() invocations
    calls,                \* number of lifecycle calls begun
    pc,                   \* thread -> position in its current call
    op,                   \* thread -> the call it executes ("none" when idle)
    idx,                  \* thread -> index of the next step of a sequence
    ledger,               \* thread -> the *_started locals of start()
    ret,                  \* thread -> result of the call
    log,                  \* thread -> effects of the current call, in order
    entry,                \* thread -> shared state when the call was entered
    last,                 \* the most recent call that returned: <<op, ret, ran>>
    since_stop,           \* "no", or how the last stop() returned ("noop",
                          \* "full") if no start() was called since
    main_pc,              \* position of main()
    main_log,             \* controller calls made by main(), with results
    exit_code,            \* value returned by main() (once main_pc = "exited")
    broken,               \* endpoints whose session fails every delivery
    bc,                   \* the broadcast in progress, if any
    m_connectionStatus,   \* state shown by the connection-status widget
    m_sonarDataWidget,    \* point held by the sonar data widget (<<>>: none)
    m_sonarVisualizationWidget,  \* point held by the visualization widget
    handled,              \* the most recent signal the window handled
    reported,             \* state of the most recent stateChanged ("none")
    signals               \* number of signals handled

\* The variables no lifecycle call touches: main() and the broadcaster's work.
\* The display client's window.
ui == <<m_connectionStatus, m_sonarDataWidget, m_sonarVisualizationWidget, handled,
        reported, signals>>

env == <<main_pc, main_log, exit_code, broken, bc, ui>>

vars == <<running, shutdown_requested, inited, started, callbacks, sessions,
          startCount, stopCount, calls, pc, op, idx, ledger, ret, log, entry, last,
          since_stop, env>>

shared == <<running, shutdown_requested, inited, started, callbacks, sessions,
            startCount, stopCount>>

\* ----------------------------------------------------------------- helpers

NoneStarted == [c \in Components |-> FALSE]

Zero == [c \in Components |-> 0]

NoEntry == [running |-> FALSE, shutdown_requested |-> FALSE, started |-> NoneStarted,
            inited |-> NoneStarted, callbacks |-> {}, startCount |-> Zero,
            stopCount |-> Zero, sessions |-> {}]

Snapshot == [running |-> running, shutdown_requested |-> shutdown_requested,
             started |-> started, inited |-> inited, callbacks |-> callbacks,
             startCount |-> startCount, stopCount |-> stopCount,
             sessions |-> sessions]

\* No broadcast in progress.
NoBroadcast == [pc |-> "idle", snapshot |-> <<>>, attempted |-> <<>>, reached |-> 0,
                result |-> "none"]

\* An entry of a call's log: <<kind, target, result>>.
Event(kind, target, result) == <<kind, target, result>>

\* ------------------------------------------------- order of the statements

\* initialize(): acceptor, broadcaster, collector.
InitSequence == <<"connection_acceptor", "message_broadcaster", "statistics_collector">>

\* start(): acceptor, broadcaster, collector.
StartSequence == <<"connection_acceptor", "message_broadcaster", "statistics_collector">>

RollbackSequence_Forward ==
    <<"connection_acceptor", "message_broadcaster", "statistics_collector">>

\* rollbackStartedComponents(): collector, broadcaster, acceptor.
RollbackSequence == <<"statistics_collector", "message_broadcaster", "connection_acceptor">>

StopSequence_SessionsBeforeBroadcaster ==
    <<"shutdown_requested", "running", "connection_acceptor", "session_manager",
      "message_broadcaster", "statistics_collector">>

StopSequence_SessionsFirst ==
    <<"shutdown_requested", "running", "session_manager", "connection_acceptor",
      "message_broadcaster", "statistics_collector">>

StopSequence_RunningLate ==
    <<"shutdown_requested", "connection_acceptor", "running", "message_broadcaster",
      "session_manager", "statistics_collector">>

\* stop(): the two flag writes, then acceptor, broadcaster, registry, collector.
StopSequence ==
    <<"shutdown_requested", "running", "connection_acceptor", "message_broadcaster",
      "session_manager", "statistics_collector">>

\* ------------------------------------------------- outcomes of component calls

\* Component::initialize(): true, false, or an exception.  An acceptor whose
\* listening resource is already bound does not initialize again.
InitOutcomes(c) ==
    IF c = "connection_acceptor" /\ inited[c]
    THEN {"false", "throw"}
    ELSE {"true", "false", "throw"}

\* Component::start(): fails if the component is not initialized.
StartOutcomes(c) ==
    IF inited[c] THEN {"true", "false", "throw"} ELSE {"false"}

\* Component::stop() and SessionManager::closeAllSessions(): return or throw.
StopOutcomes == {"ok", "throw"}

\* ------------------------------------------------------ guards of the source

StartEarlyReturn_Never(r) == FALSE

\* start(): if (running.load()) return true;
StartEarlyReturn(r) == r

StopEarlyReturn_Never(r) == FALSE

\* stop(): if (!running.load()) return;
StopEarlyReturn(r) == ~r

InitAborts_Never(r) == FALSE

InitAborts_OnThrowOnly(r) == r = "throw"

\* initialize(): if (!component->initialize()) return false; and the catch block.
InitAborts(r) == r # "true"

\* ------------------------------------------------------------ initial state

\* ------------------------------------------ display client: MainWindow.cpp

\* IWebSocketClient::State
State == {"Disconnected", "Connecting", "Connected", "Closing"}

\* The ConnectionStatusWidget::ConnectionState values the window uses.
ConnectionState == {"DISCONNECTED", "CONNECTING", "CONNECTED"}

WidgetStateFor_ClosingStaysConnected(state) ==
    CASE state = "Disconnected" -> "DISCONNECTED"
      [] state = "Connecting"   -> "CONNECTING"
      [] state = "Connected"    -> "CONNECTED"
      [] state = "Closing"      -> "CONNECTED"

\* The switch of the stateChanged handler.
WidgetStateFor(state) ==
    CASE state = "Disconnected" -> "DISCONNECTED"
      [] state = "Connecting"   -> "CONNECTING"
      [] state = "Connected"    -> "CONNECTED"
      [] state = "Closing"      -> "DISCONNECTED"

\* createPanels(): the connection status starts as disconnected.
InitialConnectionState == "DISCONNECTED"

\* Physical ranges of a SonarDataPoint (degrees, centimetres).
MIN_ANGLE == 0

MAX_ANGLE == 180

MIN_DISTANCE == 2

MAX_DISTANCE == 400

\* Numbers that occur in messages: in and out of each range.
Numbers == {1, 120, 181, 401}

Keys == {"angle", "distance"}

\* A text message: not JSON at all, or a JSON object carrying some of the
\* keys, each with a number.
Messages ==
    {[json |-> FALSE, fields |-> <<>>]}
    \cup {[json |-> TRUE, fields |-> f] :
            f \in UNION {[K -> Numbers] : K \in SUBSET Keys}}

\* A point is <<angle, distance>>; a widget that was never updated holds <<>>.
NoPoint == <<>>

\* data::SonarDataPoint sonarData;  (before the parser fills it)
DefaultPoint == <<0, 0>>

ParseResult == {"SUCCESS", "INVALID_JSON", "MISSING_FIELD", "OUT_OF_RANGE"}

\* data::SonarDataParser::parseJsonText(message, sonarData): the result and
\* the value of sonarData afterwards.
ParseJsonText(message) ==
    IF ~message.json
    THEN [result |-> "INVALID_JSON", point |-> DefaultPoint]
    ELSE IF Keys \ DOMAIN message.fields # {}
    THEN [result |-> "MISSING_FIELD", point |-> DefaultPoint]
    ELSE LET angle == message.fields["angle"]
             distance == message.fields["distance"]
         IN IF /\ MIN_ANGLE <= angle /\ angle <= MAX_ANGLE
               /\ MIN_DISTANCE <= distance /\ distance <= MAX_DISTANCE
            THEN [result |-> "SUCCESS", point |-> <<angle, distance>>]
            ELSE [result |-> "OUT_OF_RANGE", point |-> DefaultPoint]

UpdatesWidgets_Always(parseResult) == TRUE

\* if (parseResult == data::SonarDataParser::ParseResult::SUCCESS)
UpdatesWidgets(parseResult) == parseResult = "SUCCESS"

\* No signal handled yet.
NoSignal == [signal |-> "none", state |-> "none", message |-> <<>>, result |-> "none",
             point |-> NoPoint, data_before |-> NoPoint, visualization_before |-> NoPoint]

\* The window after its constructor, before the client emits a signal.
InitUi ==
    /\ m_connectionStatus = InitialConnectionState
    /\ m_sonarDataWidget = NoPoint
    /\ m_sonarVisualizationWidget = NoPoint
    /\ handled = NoSignal
    /\ reported = "none"
    /\ signals = 0

\* The state after the constructor: nothing initialized, nothing started,
\* both flags false, no call in progress.
Init ==
    /\ running = FALSE
    /\ shutdown_requested = FALSE
    /\ inited = NoneStarted
    /\ started = NoneStarted
    /\ callbacks = {}
    /\ sessions = {}
    /\ startCount = Zero
    /\ stopCount = Zero
    /\ calls = 0
    /\ pc = [t \in Threads |-> "idle"]
    /\ op = [t \in Threads |-> "none"]
    /\ idx = [t \in Threads |-> 0]
    /\ ledger = [t \in Threads |-> NoneStarted]
    /\ ret = [t \in Threads |-> "none"]
    /\ log = [t \in Threads |-> <<>>]
    /\ entry = [t \in Threads |-> NoEntry]
    /\ last = <<"none", "none", FALSE>>
    /\ since_stop = "no"
    /\ main_pc = "initialize"
    /\ main_log = <<>>
    /\ exit_code = 0
    /\ broken = {}
    /\ bc = NoBroadcast
    /\ InitUi

\* ------------------------------------------------------- thread-local moves

\* The call of thread t ends with result r.
Finish(t, r) ==
    /\ pc' = [pc EXCEPT ![t] = "done"]
    /\ ret' = [ret EXCEPT ![t] = r]
    /\ idx' = [idx EXCEPT ![t] = 0]

\* Thread t moves to position p, step i.
Goto(t, p, i) ==
    /\ pc' = [pc EXCEPT ![t] = p]
    /\ idx' = [idx EXCEPT ![t] = i]
    /\ ret' = ret

Record(t, e) == log' = [log EXCEPT ![t] = Append(@, e)]

FirstPc(o) ==
    CASE o = "initialize" -> "init_comp"
      [] o = "start" -> "start_check"
      [] o = "stop" -> "stop_check"

\* Thread t calls initialize(), start(running) or stop(running, shutdown_requested).
Call(t, o) ==
    /\ pc[t] = "idle"
    /\ calls < MaxCalls
    /\ calls' = calls + 1
    /\ pc' = [pc EXCEPT ![t] = FirstPc(o)]
    /\ op' = [op EXCEPT ![t] = o]
    /\ idx' = [idx EXCEPT ![t] = 1]
    /\ ledger' = [ledger EXCEPT ![t] = NoneStarted]
    /\ log' = [log EXCEPT ![t] = <<>>]
    /\ entry' = [entry EXCEPT ![t] = Snapshot]
    /\ since_stop' = IF o = "start" THEN "no" ELSE since_stop
    /\ UNCHANGED <<shared, ret, last, env>>

\* The call of thread t returns to its caller.
Return(t) ==
    /\ pc[t] = "done"
    /\ last' = <<op[t], ret[t], Len(log[t]) > 0>>
    /\ pc' = [pc EXCEPT ![t] = "idle"]
    /\ op' = [op EXCEPT ![t] = "none"]
    /\ idx' = [idx EXCEPT ![t] = 0]
    /\ ledger' = [ledger EXCEPT ![t] = NoneStarted]
    /\ ret' = [ret EXCEPT ![t] = "none"]
    /\ log' = [log EXCEPT ![t] = <<>>]
    /\ entry' = [entry EXCEPT ![t] = NoEntry]
    /\ since_stop' =
          IF op[t] = "stop" /\ ret[t] = "void"
          THEN (IF Len(log[t]) > 0 \/ since_stop = "full" THEN "full" ELSE "noop")
          ELSE since_stop
    /\ UNCHANGED <<shared, calls, env>>

\* ------------------------------------------------------------- initialize()

\* One of the three component initialize() calls, in the order of InitSequence.
InitComponent(t) ==
    /\ pc[t] = "init_comp"
    /\ LET c == InitSequence[idx[t]] IN
       \E r \in InitOutcomes(c) :
          /\ inited' = [inited EXCEPT ![c] = @ \/ (r = "true")]
          /\ Record(t, Event("initialize", c, r))
          /\ IF InitAborts(r)
             THEN Finish(t, "false")
             ELSE IF idx[t] = Len(InitSequence)
                  THEN Goto(t, "init_wire", 0)
                  ELSE Goto(t, "init_comp", idx[t] + 1)
    /\ UNCHANGED <<running, shutdown_requested, started, callbacks, sessions,
                   startCount, stopCount, calls, op, ledger, entry, last, since_stop, env>>

\* The four set...Callback() calls, then return true.
InitWire(t) ==
    /\ pc[t] = "init_wire"
    /\ callbacks' = AllCallbacks
    /\ log' = [log EXCEPT ![t] = @ \o
                 << Event("wire", "AcceptCallback", "ok"),
                    Event("wire", "ErrorCallback", "ok"),
                    Event("wire", "SessionCallback", "ok"),
                    Event("wire", "BroadcastCallback", "ok") >>]
    /\ Finish(t, "true")
    /\ UNCHANGED <<running, shutdown_requested, inited, started, sessions,
                   startCount, stopCount, calls, op, ledger, entry, last, since_stop, env>>

\* ------------------------------------------------------------------ start()

\* if (running.load()) return true; otherwise clear the three *_started locals.
StartCheck(t) ==
    /\ pc[t] = "start_check"
    /\ IF StartEarlyReturn(running)
       THEN Finish(t, "true")
       ELSE Goto(t, "start_comp", 1)
    /\ ledger' = [ledger EXCEPT ![t] = NoneStarted]
    /\ UNCHANGED <<shared, calls, op, log, entry, last, since_stop, env>>

\* One of the three component start() calls, in the order of StartSequence.
\* true: the *_started local is set.  false: the acceptor's failure returns
\* at once, a later failure calls the rollback first.  throw: the catch
\* block calls the rollback.
StartComponent(t) ==
    /\ pc[t] = "start_comp"
    /\ LET c == StartSequence[idx[t]] IN
       \E r \in StartOutcomes(c) :
          /\ startCount' = [startCount EXCEPT ![c] = @ + 1]
          /\ started' = [started EXCEPT ![c] = @ \/ (r = "true")]
          /\ Record(t, Event("start", c, r))
          /\ ledger' = [ledger EXCEPT ![t][c] = (r = "true")]
          /\ CASE r = "true" ->
                    IF idx[t] = Len(StartSequence)
                    THEN Goto(t, "start_store", 0)
                    ELSE Goto(t, "start_comp", idx[t] + 1)
               [] r = "false" ->
                    IF idx[t] = 1
                    THEN Finish(t, "false")
                    ELSE Goto(t, "rollback", 1)
               [] r = "throw" -> Goto(t, "rollback", 1)
    /\ UNCHANGED <<running, shutdown_requested, inited, callbacks, sessions,
                   stopCount, calls, op, entry, last, since_stop, env>>

ShutdownAfterStart_Reset(s) == FALSE

\* shutdown_requested after a successful start(), given its value s before:
\* start() does not write the flag.
ShutdownAfterStart(s) == s

\* running.store(true); return true;
StartStore(t) ==
    /\ pc[t] = "start_store"
    /\ running' = TRUE
    /\ shutdown_requested' = ShutdownAfterStart(shutdown_requested)
    /\ Record(t, Event("store", "running", "true"))
    /\ Finish(t, "true")
    /\ UNCHANGED <<inited, started, callbacks, sessions,
                   startCount, stopCount, calls, op, ledger, entry, last, since_stop, env>>

RollbackCatch_Propagates(r) == IF r = "throw" THEN "exception" ELSE "false"

\* The result of start() once the rollback has ended after a stop() with
\* outcome r: catch (...) in rollbackStartedComponents() swallows a throw, the
\* rollback returns, and start() returns false.
RollbackCatch(r) == "false"

\* rollbackStartedComponents(): one of its three if-blocks, in the order of
\* RollbackSequence.  A component whose *_started local is false is skipped.
\* A stop() that throws is caught by catch (...), which ends the rollback;
\* start() then returns false.
Rollback(t) ==
    /\ pc[t] = "rollback"
    /\ LET c == RollbackSequence[idx[t]]
           isLast == idx[t] = Len(RollbackSequence)
       IN IF ledger[t][c]
          THEN \E r \in StopOutcomes :
                  /\ stopCount' = [stopCount EXCEPT ![c] = @ + 1]
                  /\ started' = [started EXCEPT ![c] = @ /\ (r # "ok")]
                  /\ Record(t, Event("stop", c, r))
                  /\ IF r = "throw" \/ isLast
                     THEN Finish(t, RollbackCatch(r))
                     ELSE Goto(t, "rollback", idx[t] + 1)
          ELSE /\ UNCHANGED <<stopCount, started, log>>
               /\ IF isLast
                  THEN Finish(t, "false")
                  ELSE Goto(t, "rollback", idx[t] + 1)
    /\ UNCHANGED <<running, shutdown_requested, inited, callbacks, sessions,
                   startCount, calls, op, ledger, entry, last, since_stop, env>>

\* ------------------------------------------------------------------- stop()

\* if (!running.load()) return;
StopCheck(t) ==
    /\ pc[t] = "stop_check"
    /\ IF StopEarlyReturn(running)
       THEN Finish(t, "void")
       ELSE Goto(t, "stop_seq", 1)
    /\ UNCHANGED <<shared, calls, op, ledger, log, entry, last, since_stop, env>>

\* After step idx[t] of StopSequence: the next step, or the normal return.
StopAdvance(t) ==
    IF idx[t] = Len(StopSequence)
    THEN Finish(t, "void")
    ELSE Goto(t, "stop_seq", idx[t] + 1)

\* shutdown_requested.store(true);
StopSetShutdown(t) ==
    /\ pc[t] = "stop_seq"
    /\ StopSequence[idx[t]] = "shutdown_requested"
    /\ shutdown_requested' = TRUE
    /\ Record(t, Event("store", "shutdown_requested", "true"))
    /\ StopAdvance(t)
    /\ UNCHANGED <<running, inited, started, callbacks, sessions, startCount,
                   stopCount, calls, op, ledger, entry, last, since_stop, env>>

\* running.store(false);
StopClearRunning(t) ==
    /\ pc[t] = "stop_seq"
    /\ StopSequence[idx[t]] = "running"
    /\ running' = FALSE
    /\ Record(t, Event("store", "running", "false"))
    /\ StopAdvance(t)
    /\ UNCHANGED <<shutdown_requested, inited, started, callbacks, sessions,
                   startCount, stopCount, calls, op, ledger, entry, last, since_stop, env>>

\* component->stop(); stop() has no try block: an exception leaves stop().
StopComponent(t) ==
    /\ pc[t] = "stop_seq"
    /\ StopSequence[idx[t]] \in Components
    /\ LET c == StopSequence[idx[t]] IN
       \E r \in StopOutcomes :
          /\ stopCount' = [stopCount EXCEPT ![c] = @ + 1]
          /\ started' = [started EXCEPT ![c] = @ /\ (r # "ok")]
          /\ Record(t, Event("stop", c, r))
          /\ IF r = "throw" THEN Finish(t, "exception") ELSE StopAdvance(t)
    /\ UNCHANGED <<running, shutdown_requested, inited, callbacks, sessions,
                   startCount, calls, op, ledger, entry, last, since_stop, env>>

\* session_manager_->closeAllSessions(); an exception leaves stop().
StopCloseSessions(t) ==
    /\ pc[t] = "stop_seq"
    /\ StopSequence[idx[t]] = "session_manager"
    /\ \E r \in StopOutcomes :
          /\ IF r = "ok"
             THEN sessions' = {}
             ELSE sessions' \in SUBSET sessions
          /\ Record(t, Event("closeAllSessions", "session_manager", r))
          /\ IF r = "throw" THEN Finish(t, "exception") ELSE StopAdvance(t)
    /\ UNCHANGED <<running, shutdown_requested, inited, started, callbacks,
                   startCount, stopCount, calls, op, ledger, entry, last, since_stop, env>>

\* ------------------------------------------------------------ the transport

\* The accept callback: the event handler registers a session for endpoint e.
Accept(e) ==
    /\ started["connection_acceptor"]
    /\ "AcceptCallback" \in callbacks
    /\ e \notin sessions
    /\ sessions' = sessions \cup {e}
    /\ UNCHANGED <<running, shutdown_requested, inited, started, callbacks,
                   startCount, stopCount, calls, pc, op, idx, ledger, ret, log,
                   entry, last, since_stop, env>>

\* The transport reports that endpoint e disconnected.
Disconnect(e) ==
    /\ e \in sessions
    /\ sessions' = sessions \ {e}
    /\ UNCHANGED <<running, shutdown_requested, inited, started, callbacks,
                   startCount, stopCount, calls, pc, op, idx, ledger, ret, log,
                   entry, last, since_stop, env>>

\* ------------------------------------------------------------ specification

\* No lifecycle call is in progress.
Quiescent == \A u \in Threads : pc[u] = "idle"

\* Lifecycle calls are made one after the other (by any thread); the
\* transport events happen at any time.
Next ==
    \/ \E t \in Threads, o \in Ops : Quiescent /\ Call(t, o)
    \/ \E t \in Threads : Return(t)
    \/ \E t \in Threads : InitComponent(t)
    \/ \E t \in Threads : InitWire(t)
    \/ \E t \in Threads : StartCheck(t)
    \/ \E t \in Threads : StartComponent(t)
    \/ \E t \in Threads : StartStore(t)
    \/ \E t \in Threads : Rollback(t)
    \/ \E t \in Threads : StopCheck(t)
    \/ \E t \in Threads : StopSetShutdown(t)
    \/ \E t \in Threads : StopClearRunning(t)
    \/ \E t \in Threads : StopComponent(t)
    \/ \E t \in Threads : StopCloseSessions(t)
    \/ \E e \in Endpoints : Accept(e)
    \/ \E e \in Endpoints : Disconnect(e)

Spec == Init /\ [][Next]_vars

\* Thread t is at the end of a call of o.
Returned(t, o) == pc[t] = "done" /\ op[t] = o

\* The state after a successful initialize(): the three components are
\* initialized, the callbacks are installed, nothing is started.
InitInitialized ==
    /\ running = FALSE
    /\ shutdown_requested = FALSE
    /\ inited = [c \in Components |-> TRUE]
    /\ started = NoneStarted
    /\ callbacks = AllCallbacks
    /\ sessions = {}
    /\ startCount = Zero
    /\ stopCount = Zero
    /\ calls = 1
    /\ pc = [t \in Threads |-> "idle"]
    /\ op = [t \in Threads |-> "none"]
    /\ idx = [t \in Threads |-> 0]
    /\ ledger = [t \in Threads |-> NoneStarted]
    /\ ret = [t \in Threads |-> "none"]
    /\ log = [t \in Threads |-> <<>>]
    /\ entry = [t \in Threads |-> NoEntry]
    /\ last = <<"initialize", "true", TRUE>>
    /\ since_stop = "no"
    /\ main_pc = "initialize"
    /\ main_log = <<>>
    /\ exit_code = 0
    /\ broken = {}
    /\ bc = NoBroadcast
    /\ InitUi

\* start() and stop() are called by two threads at any time on an
\* initialized server: a call may begin while the other thread's call is in
\* progress, and their statements interleave.
NextConcurrent ==
    \/ \E t \in Threads, o \in {"start", "stop"} : Call(t, o)
    \/ \E t \in Threads : Return(t)
    \/ \E t \in Threads : StartCheck(t)
    \/ \E t \in Threads : StartComponent(t)
    \/ \E t \in Threads : StartStore(t)
    \/ \E t \in Threads : Rollback(t)
    \/ \E t \in Threads : StopCheck(t)
    \/ \E t \in Threads : StopSetShutdown(t)
    \/ \E t \in Threads : StopClearRunning(t)
    \/ \E t \in Threads : StopComponent(t)
    \/ \E t \in Threads : StopCloseSessions(t)

SpecConcurrent == InitInitialized /\ [][NextConcurrent]_vars

\* ------------------------------------------------------------------ main()

\* main() runs on MainThread; an external stop request (Ctrl+C) reaches the
\* controller's stop() on SignalThread.
MainThread == "t1"

SignalThread == "t2"

MainAfterInitialize_Ignores(r) == "start"

\* if (!controller.initialize()) return 1;
MainAfterInitialize(r) == IF r = "true" THEN "start" ELSE "exited"

MainAfterStart_Ignores(r) == "run"

\* if (!controller.start()) return 1;
MainAfterStart(r) == IF r = "true" THEN "run" ELSE "exited"

\* main() calls controller.initialize() or controller.start().
MainEnter(c) ==
    /\ c \in {"initialize", "start"}
    /\ main_pc = c
    /\ pc[MainThread] = "idle"
    /\ main_pc' = IF c = "initialize" THEN "in_initialize" ELSE "in_start"
    /\ UNCHANGED <<shared, calls, pc, op, idx, ledger, ret, log, entry, last,
                   since_stop, main_log, exit_code, broken, bc, ui>>

\* The controller, inside initialize() or start(), is about to call the
\* lifecycle manager's function of the same name.
MainInController(c) ==
    main_pc = (IF c = "initialize" THEN "in_initialize" ELSE "in_start")

\* controller.initialize() or controller.start() returns the lifecycle
\* manager's result r; on false main() returns 1.
MainLeave(c) ==
    /\ MainInController(c)
    /\ Returned(MainThread, c)
    /\ LET r == ret[MainThread]
           next == IF c = "initialize" THEN MainAfterInitialize(r)
                                       ELSE MainAfterStart(r)
       IN /\ main_pc' = next
          /\ main_log' = Append(main_log, <<c, r>>)
          /\ exit_code' = IF next = "exited" THEN 1 ELSE exit_code
    /\ UNCHANGED <<shared, calls, pc, op, idx, ledger, ret, log, entry, last,
                   since_stop, broken, bc, ui>>

\* controller.run(); blocks.
MainRun ==
    /\ main_pc = "run"
    /\ main_pc' = "in_run"
    /\ main_log' = Append(main_log, <<"run", "entered">>)
    /\ UNCHANGED <<shared, calls, pc, op, idx, ledger, ret, log, entry, last,
                   since_stop, exit_code, broken, bc, ui>>

\* run() returns once a stop has been requested.
RunMayReturn == shutdown_requested

\* controller.run() returns; main() prints the metrics and returns 0.
MainRunReturns ==
    /\ main_pc = "in_run"
    /\ RunMayReturn
    /\ main_pc' = "exited"
    /\ main_log' = Append(main_log, <<"run", "returned">>)
    /\ exit_code' = 0
    /\ UNCHANGED <<shared, calls, pc, op, idx, ledger, ret, log, entry, last,
                   since_stop, broken, bc, ui>>

\* One statement of the lifecycle call thread t is executing.
LifecycleStep(t) ==
    \/ InitComponent(t)
    \/ InitWire(t)
    \/ StartCheck(t)
    \/ StartComponent(t)
    \/ StartStore(t)
    \/ Rollback(t)
    \/ StopCheck(t)
    \/ StopSetShutdown(t)
    \/ StopClearRunning(t)
    \/ StopComponent(t)
    \/ StopCloseSessions(t)

\* The process: main() drives initialize() and start() on MainThread and then
\* blocks in run(); stop() is called on SignalThread at any time.
NextMain ==
    \/ \E c \in {"initialize", "start"} : MainEnter(c)
    \/ \E c \in {"initialize", "start"} : MainInController(c) /\ Call(MainThread, c)
    \/ \E c \in {"initialize", "start"} : MainLeave(c)
    \/ MainRun
    \/ MainRunReturns
    \/ Call(SignalThread, "stop")
    \/ Return(SignalThread)
    \/ (main_pc \notin {"in_initialize", "in_start"} /\ Return(MainThread))
    \/ \E t \in Threads : LifecycleStep(t)
    \/ \E e \in Endpoints : Accept(e)
    \/ \E e \in Endpoints : Disconnect(e)

SpecMain == Init /\ [][NextMain]_vars

\* ------------------------------------------------------------- broadcast()

\* The sequences that list every element of set S once: the orders in which a
\* snapshot of the registry can be iterated.
Orders(S) ==
    {q \in [1..Cardinality(S) -> S] : \A i, j \in 1..Cardinality(S) : q[i] = q[j] => i = j}

\* Delivery to the session of endpoint e fails if the session is broken or
\* has been closed since the snapshot was taken.
DeliveryFails(e) == e \in broken \/ e \notin sessions

ContinueAfterFailure_Abort == FALSE

\* A per-session delivery failure is caught and counted; delivery goes on
\* with the remaining sessions.
ContinueAfterFailure == TRUE

\* broadcast(payload) is called on a started broadcaster: the payload is
\* serialized once and the registry's snapshot is taken.
BroadcastBegin ==
    /\ bc.pc = "idle"
    /\ started["message_broadcaster"]
    /\ \E q \in Orders(sessions) :
          bc' = [pc |-> "deliver", snapshot |-> q, attempted |-> <<>>, reached |-> 0,
                 result |-> "none"]
    /\ UNCHANGED <<shared, calls, pc, op, idx, ledger, ret, log, entry, last,
                   since_stop, main_pc, main_log, exit_code, broken, ui>>

\* Delivery to the next session of the snapshot.
BroadcastDeliver ==
    /\ bc.pc = "deliver"
    /\ Len(bc.attempted) < Len(bc.snapshot)
    /\ LET e == bc.snapshot[Len(bc.attempted) + 1]
           failed == DeliveryFails(e)
       IN bc' = [bc EXCEPT
                   !.attempted = Append(@, <<e, IF failed THEN "failed" ELSE "ok">>),
                   !.reached = IF failed THEN @ ELSE @ + 1,
                   !.pc = IF failed /\ ~ContinueAfterFailure THEN "done" ELSE @,
                   !.result = IF failed /\ ~ContinueAfterFailure THEN "threw" ELSE @]
    /\ UNCHANGED <<shared, calls, pc, op, idx, ledger, ret, log, entry, last,
                   since_stop, main_pc, main_log, exit_code, broken, ui>>

\* Every session of the snapshot has been tried: sessionsReached is reported
\* through the broadcast callback and returned.
BroadcastEnd ==
    /\ bc.pc = "deliver"
    /\ Len(bc.attempted) = Len(bc.snapshot)
    /\ bc' = [bc EXCEPT !.pc = "done", !.result = "returned"]
    /\ UNCHANGED <<shared, calls, pc, op, idx, ledger, ret, log, entry, last,
                   since_stop, main_pc, main_log, exit_code, broken, ui>>

\* The caller has the result; the next broadcast may begin.
BroadcastReturn ==
    /\ bc.pc = "done"
    /\ bc' = NoBroadcast
    /\ UNCHANGED <<shared, calls, pc, op, idx, ledger, ret, log, entry, last,
                   since_stop, main_pc, main_log, exit_code, broken, ui>>

\* A running server, as after initialize() and start() in main(): every
\* component started, any set of sessions registered, any of the endpoints
\* broken.
InitBroadcast ==
    /\ running = TRUE
    /\ shutdown_requested = FALSE
    /\ inited = [c \in Components |-> TRUE]
    /\ started = [c \in Components |-> TRUE]
    /\ callbacks = AllCallbacks
    /\ sessions \in SUBSET Endpoints
    /\ startCount = [c \in Components |-> 1]
    /\ stopCount = Zero
    /\ calls = 2
    /\ pc = [t \in Threads |-> "idle"]
    /\ op = [t \in Threads |-> "none"]
    /\ idx = [t \in Threads |-> 0]
    /\ ledger = [t \in Threads |-> NoneStarted]
    /\ ret = [t \in Threads |-> "none"]
    /\ log = [t \in Threads |-> <<>>]
    /\ entry = [t \in Threads |-> NoEntry]
    /\ last = <<"start", "true", TRUE>>
    /\ since_stop = "no"
    /\ main_pc = "in_run"
    /\ main_log = << <<"initialize", "true">>, <<"start", "true">>, <<"run", "entered">> >>
    /\ exit_code = 0
    /\ broken \in SUBSET Endpoints
    /\ bc = NoBroadcast
    /\ InitUi

\* Broadcasts of the run loop while sessions connect and disconnect.
NextBroadcast ==
    \/ BroadcastBegin
    \/ BroadcastDeliver
    \/ BroadcastEnd
    \/ BroadcastReturn
    \/ \E e \in Endpoints : Accept(e)
    \/ \E e \in Endpoints : Disconnect(e)

SpecBroadcast == InitBroadcast /\ [][NextBroadcast]_vars

\* ------------------------------------------------ display client: handlers

\* What the window's handlers leave alone: the whole backend.
backend == <<shared, calls, pc, op, idx, ledger, ret, log, entry, last, since_stop,
             main_pc, main_log, exit_code, broken, bc>>

\* The lambda connected to IWebSocketClient::stateChanged.
StateChanged(state) ==
    /\ signals < MaxSignals
    /\ m_connectionStatus' = WidgetStateFor(state)
    /\ handled' = [NoSignal EXCEPT !.signal = "stateChanged", !.state = state,
                                   !.data_before = m_sonarDataWidget,
                                   !.visualization_before = m_sonarVisualizationWidget]
    /\ reported' = state
    /\ signals' = signals + 1
    /\ UNCHANGED <<m_sonarDataWidget, m_sonarVisualizationWidget, backend>>

\* The lambda connected to IWebSocketClient::textMessageReceived.
TextMessageReceived(message) ==
    /\ signals < MaxSignals
    /\ LET parsed == ParseJsonText(message)
           parseResult == parsed.result
           sonarData == parsed.point
       IN /\ IF UpdatesWidgets(parseResult)
             THEN /\ m_sonarDataWidget' = sonarData
                  /\ m_sonarVisualizationWidget' = sonarData
             ELSE UNCHANGED <<m_sonarDataWidget, m_sonarVisualizationWidget>>
          /\ handled' = [NoSignal EXCEPT !.signal = "textMessageReceived",
                                         !.message = message,
                                         !.result = parseResult,
                                         !.point = sonarData,
                                         !.data_before = m_sonarDataWidget,
                                         !.visualization_before =
                                             m_sonarVisualizationWidget]
    /\ signals' = signals + 1
    /\ UNCHANGED <<m_connectionStatus, reported, backend>>

\* The client emits its signals in any order; each is handled at once, in the
\* thread of the window.
NextFrontend ==
    \/ \E state \in State : StateChanged(state)
    \/ \E message \in Messages : TextMessageReceived(message)

SpecFrontend == Init /\ [][NextFrontend]_vars

\* ------------------------------------------------------- reading a call's log

\* The entries of log l of kind k.
OfKind(l, k) == SelectSeq(l, LAMBDA e : e[1] = k)

\* Components whose stop() was invoked in l.
StopsInvoked(l) == {l[i][2] : i \in {j \in 1..Len(l) : l[j][1] = "stop"}}

\* Components whose start() returned true in l.
StartsSucceeded(l) ==
    {l[i][2] : i \in {j \in 1..Len(l) : l[j][1] = "start" /\ l[j][3] = "true"}}

\* Position of a component in the start order acceptor, broadcaster, collector.
Rank(c) ==
    CASE c = "connection_acceptor" -> 1
      [] c = "message_broadcaster" -> 2
      [] c = "statistics_collector" -> 3

IsPrefix(a, b) == Len(a) <= Len(b) /\ \A i \in 1..Len(a) : a[i] = b[i]

\* The stop events of l occur in the order collector, broadcaster, acceptor.
StopsInReverse(l) ==
    LET sp == OfKind(l, "stop") IN
    \A i, j \in 1..Len(sp) : i < j => Rank(sp[i][2]) > Rank(sp[j][2])

\* ------------------------------------------------------------------ claims

\* C1: a start() entered with running = false in which a component's start()
\* returns false stops exactly the components whose start() returned true
\* earlier in the call, returns false, and leaves running false.
C1_RollbackStopsExactlyStarted ==
    \A t \in Threads :
       ( /\ Returned(t, "start")
         /\ ~entry[t].running
         /\ \E i \in 1..Len(log[t]) : log[t][i][1] = "start" /\ log[t][i][3] = "false" )
       => /\ StopsInvoked(log[t]) = StartsSucceeded(log[t])
          /\ ret[t] = "false"
          /\ ~running

\* C2: within one start() call the components are started in the order
\* acceptor, broadcaster, collector, every stop comes after the starts, and
\* the stops of the rollback occur in the reverse order (collector before
\* broadcaster before acceptor).
C2_StartOrderAndReverseRollback ==
    \A t \in Threads :
       op[t] = "start" =>
          LET st == OfKind(log[t], "start") IN
          /\ \A i \in 1..Len(st) : Rank(st[i][2]) = i
          /\ StopsInReverse(log[t])
          /\ \A i, j \in 1..Len(log[t]) :
                (log[t][i][1] = "start" /\ log[t][j][1] = "stop") => i < j

\* C2 witness: a start() has returned after its rollback stopped two components.
C2_Witness ==
    \E t \in Threads :
       /\ Returned(t, "start")
       /\ Len(OfKind(log[t], "stop")) = 2
       /\ StopsInvoked(log[t]) = {"message_broadcaster", "connection_acceptor"}

\* C3: with calls made one after the other, running = true implies that all
\* three components are started and that no stop or closeAllSessions has been
\* invoked by the call in progress; start() writes running = true only after
\* the three start() calls of that call returned true; stop() invokes a stop
\* or closeAllSessions only after it wrote running = false.
C3_RunningImpliesAllStarted ==
    /\ running => \A c \in Components : started[c]
    /\ running =>
          \A t \in Threads : \A i \in 1..Len(log[t]) :
             log[t][i][1] \notin {"stop", "closeAllSessions"}
    /\ \A t \in Threads : \A i \in 1..Len(log[t]) :
          (op[t] = "start" /\ log[t][i] = <<"store", "running", "true">>)
          => StartsSucceeded(SubSeq(log[t], 1, i - 1)) = Components
    /\ \A t \in Threads : \A i \in 1..Len(log[t]) :
          (op[t] = "stop" /\ log[t][i][1] \in {"stop", "closeAllSessions"})
          => \E j \in 1..(i - 1) : log[t][j] = <<"store", "running", "false">>

\* C3 witness: a start() entered with running = false has returned true and
\* running is true.
C3_Witness ==
    \E t \in Threads :
       /\ Returned(t, "start")
       /\ ~entry[t].running
       /\ ret[t] = "true"
       /\ running

\* C4: start() entered with running = true returns true, invokes no
\* component's start() or stop(), and leaves running, the components' started
\* state and the start and stop counts as they were.
C4_StartWhileRunningIsNoop ==
    \A t \in Threads :
       (Returned(t, "start") /\ entry[t].running) =>
          /\ ret[t] = "true"
          /\ log[t] = <<>>
          /\ running
          /\ started = entry[t].started
          /\ startCount = entry[t].startCount
          /\ stopCount = entry[t].stopCount

\* C4 witness: a start() entered with running = true has returned.
C4_Witness ==
    \E t \in Threads :
       /\ Returned(t, "start")
       /\ entry[t].running
       /\ \A c \in Components : startCount[c] = 1

\* The effects of a stop() entered with running = true, in order.
StopEffects ==
    << <<"store", "shutdown_requested">>, <<"store", "running">>,
       <<"stop", "connection_acceptor">>, <<"stop", "message_broadcaster">>,
       <<"closeAllSessions", "session_manager">>, <<"stop", "statistics_collector">> >>

\* C5: the effects of a stop() entered with running = true occur in the order
\* shutdown_requested := true, running := false, acceptor stop, broadcaster
\* stop, closeAllSessions, collector stop: at every point of the call the
\* effects so far are an initial part of that list, and a stop() that returns
\* normally has performed all six.
C5_StopOrder ==
    \A t \in Threads :
       (op[t] = "stop" /\ entry[t].running) =>
          LET done == [i \in 1..Len(log[t]) |-> <<log[t][i][1], log[t][i][2]>>] IN
          /\ IsPrefix(done, StopEffects)
          /\ Len(log[t]) >= 1 => (log[t][1][3] = "true" /\ shutdown_requested)
          /\ Len(log[t]) >= 2 => (log[t][2][3] = "false" /\ ~running)
          /\ (pc[t] = "done" /\ ret[t] = "void") => done = StopEffects

\* C5 witness: a stop() entered with running = true has returned normally.
C5_Witness ==
    \E t \in Threads :
       /\ Returned(t, "stop")
       /\ entry[t].running
       /\ ret[t] = "void"
       /\ Len(log[t]) = 6

\* C6: stop() entered with running = false invokes no component stop and no
\* closeAllSessions and leaves the flags, the components' state and the stop
\* counts unchanged; a second stop() after a stop() therefore changes nothing.
C6_StopWhileStoppedIsNoop ==
    \A t \in Threads :
       (Returned(t, "stop") /\ ~entry[t].running) =>
          /\ log[t] = <<>>
          /\ ret[t] = "void"
          /\ running = entry[t].running
          /\ shutdown_requested = entry[t].shutdown_requested
          /\ started = entry[t].started
          /\ stopCount = entry[t].stopCount
          /\ startCount = entry[t].startCount

\* C6 witness: the second of two consecutive stop() calls has returned; the
\* first one tore the server down, and every component was stopped once.
C6_Witness ==
    \E t \in Threads :
       /\ Returned(t, "stop")
       /\ ~entry[t].running
       /\ last = <<"stop", "void", TRUE>>
       /\ \A c \in Components : stopCount[c] = 1 /\ ~started[c]
       /\ shutdown_requested

\* C7: start() called before initialize() has succeeded returns false,
\* starts no component, invokes no stop, and leaves running false.
C7_StartBeforeInitializeNoSideEffects ==
    \A t \in Threads :
       (Returned(t, "start") /\ entry[t].callbacks # AllCallbacks) =>
          /\ ret[t] = "false"
          /\ ~running
          /\ StartsSucceeded(log[t]) = {}
          /\ StopsInvoked(log[t]) = {}
          /\ started = entry[t].started

\* C8: initialize() initializes acceptor, broadcaster, collector in that
\* order; a component initialize() that returns false or throws is the last
\* effect of the call, which then returns false; no start() or stop() is
\* invoked; the call returns true only if all three returned true.
C8_InitializeAbortsAtFirstFailure ==
    \A t \in Threads :
       op[t] = "initialize" =>
          LET ini == OfKind(log[t], "initialize") IN
          /\ \A i \in 1..Len(ini) : Rank(ini[i][2]) = i
          /\ \A i \in 1..Len(log[t]) : log[t][i][1] \in {"initialize", "wire"}
          /\ \A i \in 1..Len(log[t]) :
                (log[t][i][1] = "initialize" /\ log[t][i][3] # "true")
                => (i = Len(log[t]) /\ pc[t] = "done" /\ ret[t] = "false")
          /\ pc[t] = "done" =>
                (ret[t] = "true" <=>
                   (Len(ini) = 3 /\ \A i \in 1..3 : ini[i][3] = "true"))
          /\ startCount = entry[t].startCount
          /\ stopCount = entry[t].stopCount

\* C8 witness: initialize() has returned false after the broadcaster's
\* initialize() returned false; the collector's was not invoked.
C8_Witness ==
    \E t \in Threads :
       /\ Returned(t, "initialize")
       /\ ret[t] = "false"
       /\ log[t] = << <<"initialize", "connection_acceptor", "true">>,
                      <<"initialize", "message_broadcaster", "false">> >>

\* C9: a start() in which a component's start() throws returns false, stops
\* the components started before the throwing step, in reverse order, and
\* leaves running false.
C9_ThrowingStartRollsBack ==
    \A t \in Threads :
       ( /\ Returned(t, "start")
         /\ \E i \in 1..Len(log[t]) : log[t][i][1] = "start" /\ log[t][i][3] = "throw" )
       => /\ ret[t] = "false"
          /\ ~running
          /\ StopsInvoked(log[t]) = StartsSucceeded(log[t])
          /\ StopsInReverse(log[t])

\* C10: stop() and start() (whose failure paths run the rollback) always
\* return normally: no exception of a component's stop() or of
\* closeAllSessions() leaves them.
C10_NoExceptionEscapes ==
    \A t \in Threads :
       (pc[t] = "done" /\ op[t] \in {"start", "stop"}) => ret[t] # "exception"

\* C11: a start() whose rollback met a throwing stop() still returns false
\* (the exception is caught inside the rollback and does not leave start()),
\* and running is false afterwards.
C11_FailedRollbackContained ==
    \A t \in Threads :
       ( /\ Returned(t, "start")
         /\ \E i \in 1..Len(log[t]) : log[t][i][1] = "stop" /\ log[t][i][3] = "throw" )
       => /\ ret[t] = "false"
          /\ ~running

\* C11 witness: a start() has returned after the broadcaster's stop() threw in
\* the rollback that followed the collector's failed start().
C11_Witness ==
    \E t \in Threads :
       /\ Returned(t, "start")
       /\ Len(log[t]) = 4
       /\ log[t][3][1] = "start" /\ log[t][3][3] # "true"
       /\ log[t][4] = <<"stop", "message_broadcaster", "throw">>

\* Entry e occurs in log l before position i.
Before(l, e, i) == \E j \in 1..(i - 1) : l[j] = e

\* Entry e occurs in log l.
Logged(l, e) == Before(l, e, Len(l) + 1)

C13_MainSequencing ==
    /\ main_pc \in {"start", "in_start"} =>
          main_log = << <<"initialize", "true">> >>
    /\ op[MainThread] = "start" =>
          (Len(main_log) >= 1 /\ main_log[1] = <<"initialize", "true">>)
    /\ main_pc \in {"run", "in_run"} =>
          /\ Len(main_log) \in {2, 3}
          /\ main_log[1] = <<"initialize", "true">>
          /\ main_log[2] = <<"start", "true">>
    /\ main_pc = "exited" =>
          \/ /\ exit_code = 1
             /\ main_log = << <<"initialize", "false">> >>
          \/ /\ exit_code = 1
             /\ main_log = << <<"initialize", "true">>, <<"start", "false">> >>
          \/ /\ exit_code = 0
             /\ main_log = << <<"initialize", "true">>, <<"start", "true">>,
                             <<"run", "entered">>, <<"run", "returned">> >>

\* C13 witness: main() has returned 0 after run() returned.
C13_Witness ==
    /\ main_pc = "exited"
    /\ exit_code = 0
    /\ Len(main_log) = 4

\* The deliveries of the broadcast in progress that failed.
FailedDeliveries ==
    {i \in 1..Len(bc.attempted) : bc.attempted[i][2] = "failed"}

\* C14: a broadcast over a snapshot of N sessions tries the sessions in
\* snapshot order and, when it ends, has tried all N of them and has not
\* thrown; if exactly one delivery failed it reports sessionsReached = N - 1.
C14_BroadcastIsolation ==
    /\ Len(bc.attempted) <= Len(bc.snapshot)
    /\ \A i \in 1..Len(bc.attempted) : bc.attempted[i][1] = bc.snapshot[i]
    /\ bc.pc = "done" =>
          /\ Len(bc.attempted) = Len(bc.snapshot)
          /\ bc.result = "returned"
          /\ bc.reached + Cardinality(FailedDeliveries) = Len(bc.snapshot)
          /\ Cardinality(FailedDeliveries) = 1 => bc.reached + 1 = Len(bc.snapshot)

\* C14 witness: a broadcast over two sessions has ended; delivery to the first
\* failed, the second was reached, sessionsReached = 1.
C14_Witness ==
    /\ bc.pc = "done"
    /\ Len(bc.snapshot) = 2
    /\ Len(bc.attempted) = 2
    /\ bc.attempted[1][2] = "failed"
    /\ bc.attempted[2][2] = "ok"
    /\ bc.reached = 1

\* C15: after a start() that returned false none of the three components is
\* started.
C15_FailedStartLeavesNothingStarted ==
    \A t \in Threads :
       (Returned(t, "start") /\ ret[t] = "false") =>
          \A c \in Components : ~started[c]

\* C15, the decisive case: after a start() that returned false, a component
\* started by that call has had its stop() invoked.
C15_StartedComponentsGetStopInvoked ==
    \A t \in Threads :
       (Returned(t, "start") /\ ret[t] = "false") =>
          StartsSucceeded(log[t]) \subseteq StopsInvoked(log[t])

\* The threads whose call in progress has invoked effect <<kind, target>>.
Invokers(kind, target) ==
    {t \in Threads : \E i \in 1..Len(log[t]) : log[t][i][1] = kind /\ log[t][i][2] = target}

\* C16: when two threads are in stop() at the same time on a running server,
\* each component's stop() and closeAllSessions() is invoked by only one of
\* them.
C16_ConcurrentStopTearsDownOnce ==
    (\A t \in Threads : op[t] = "stop" /\ entry[t].running) =>
       /\ \A c \in Components : Cardinality(Invokers("stop", c)) <= 1
       /\ Cardinality(Invokers("closeAllSessions", "session_manager")) <= 1

\* C17: when two threads are in start() at the same time, both entered with
\* running = false, each component's start() is invoked by only one of them.
C17_ConcurrentStartStartsOnce ==
    (\A t \in Threads : op[t] = "start" /\ ~entry[t].running) =>
       \A c \in Components : Cardinality(Invokers("start", c)) <= 1

\* C18: once a stop() has returned, and until start() is called again,
\* running is false and no component is started.
C18_StopIsNeverLost ==
    since_stop # "no" =>
       /\ ~running
       /\ \A c \in Components : ~started[c]

\* C18, the lost stop: once a stop() has returned, running does not become
\* true before start() is called again.
C18_NotRunningAfterStop ==
    since_stop # "no" => ~running

\* C19: in initialize() the four callbacks are installed only after the
\* three component initialize() calls of that call returned true; an
\* initialize() that returns false has installed no callback, and one that
\* returns true has installed all four.
C19_CallbacksWiredAfterAllInitialized ==
    \A t \in Threads :
       op[t] = "initialize" =>
          /\ \A i \in 1..Len(log[t]) :
                log[t][i][1] = "wire" =>
                   /\ i > 3
                   /\ \A j \in 1..3 : log[t][j][1] = "initialize" /\ log[t][j][3] = "true"
          /\ (pc[t] = "done" /\ ret[t] = "false") =>
                /\ OfKind(log[t], "wire") = <<>>
                /\ callbacks = entry[t].callbacks
          /\ (pc[t] = "done" /\ ret[t] = "true") =>
                /\ {e[2] : e \in {log[t][i] : i \in 4..Len(log[t])}} = AllCallbacks
                /\ callbacks = AllCallbacks

\* C19 witness: initialize() has returned true with the four callbacks
\* installed after three successful component initializations.
C19_Witness ==
    \E t \in Threads :
       /\ Returned(t, "initialize")
       /\ ret[t] = "true"
       /\ entry[t].callbacks = {}
       /\ callbacks = AllCallbacks
       /\ Len(log[t]) = 7

\* C20: initialize(), start() and its rollback never write
\* shutdown_requested; the flag is true only after a stop() that found the
\* server running, and once true it is never reset.
C20_ShutdownRequestedNeverReset ==
    /\ \A t \in Threads :
          /\ \A i \in 1..Len(log[t]) :
                log[t][i][2] = "shutdown_requested" =>
                   (op[t] = "stop" /\ entry[t].running /\ log[t][i][3] = "true")
          /\ op[t] \in {"start", "initialize"} =>
                shutdown_requested = entry[t].shutdown_requested
          /\ (op[t] = "stop" /\ ~entry[t].running) =>
                shutdown_requested = entry[t].shutdown_requested
          /\ entry[t].shutdown_requested => shutdown_requested
    /\ shutdown_requested => \A c \in Components : startCount[c] >= 1

\* C20 witness: after start, stop, start the second start() has returned true
\* and running and shutdown_requested are both true.
C20_Witness ==
    \E t \in Threads :
       /\ Returned(t, "start")
       /\ ret[t] = "true"
       /\ ~entry[t].running
       /\ entry[t].shutdown_requested
       /\ running
       /\ shutdown_requested

\* ------------------------------------------------------------------ C21

\* C21: a received text message changes the sonar data widget and the sonar
\* visualization widget only when parsing returned ParseResult::SUCCESS, and
\* then both hold the same point, the one the parser produced from the
\* message; after any other parse result both hold what they held before.
C21_WidgetsUpdatedOnlyOnSuccess ==
    handled.signal = "textMessageReceived" =>
        /\ handled.result \in ParseResult
        /\ IF handled.result = "SUCCESS"
           THEN /\ m_sonarDataWidget = handled.point
                /\ m_sonarVisualizationWidget = handled.point
                /\ handled.point = <<handled.message.fields["angle"],
                                     handled.message.fields["distance"]>>
           ELSE /\ m_sonarDataWidget = handled.data_before
                /\ m_sonarVisualizationWidget = handled.visualization_before

\* A message that failed to parse arrived after one that parsed: both
\* widgets still hold the earlier point.
C21_Witness ==
    /\ handled.signal = "textMessageReceived"
    /\ handled.result = "OUT_OF_RANGE"
    /\ handled.data_before = <<120, 181>>
    /\ m_sonarDataWidget = <<120, 181>>
    /\ m_sonarVisualizationWidget = <<120, 181>>

\* ------------------------------------------------------------------ C22

\* C22: the connection-status widget shows DISCONNECTED until the first
\* stateChanged signal, and afterwards the image of the most recent one:
\* DISCONNECTED for Disconnected and Closing, CONNECTING for Connecting,
\* CONNECTED for Connected; so it shows CONNECTED exactly while the last
\* reported state is Connected.
C22_StatusFollowsLastStateChanged ==
    /\ reported = "none" => m_connectionStatus = "DISCONNECTED"
    /\ reported \in {"Disconnected", "Closing"} => m_connectionStatus = "DISCONNECTED"
    /\ reported = "Connecting" => m_connectionStatus = "CONNECTING"
    /\ reported = "Connected" => m_connectionStatus = "CONNECTED"
    /\ m_connectionStatus = "CONNECTED" <=> reported = "Connected"
    /\ m_connectionStatus \in ConnectionState

\* The client last reported Closing; a text message handled afterwards has
\* left the status at DISCONNECTED.
C22_Witness ==
    /\ reported = "Closing"
    /\ m_connectionStatus = "DISCONNECTED"
    /\ handled.signal = "textMessageReceived"
    /\ signals >= 2

====
